---------------------------- MODULE Spec2Model ----------------------------
(***************************************************************************)
(* A model of src/sofascore_scraper.py: the SofaScoreScraper class (the    *)
(* result classifier, the event-to-record mapping, the three extraction    *)
(* strategies, the date-range loop, the league filter) and main().         *)
(*                                                                         *)
(* Python values are tagged records, so that values of different Python    *)
(* types can be compared: None, int, str (a sequence of one-character      *)
(* strings), dict (a sequence of <<key, value>> pairs in insertion order)  *)
(* and list.  The pseudo-value Raised stands for "the evaluation raised an *)
(* Exception".  JSON floats and booleans are not modelled.                 *)
(*                                                                         *)
(* Console output (print) is taken never to fail.  The page-fetch driver,  *)
(* the remote API and the file system are the environment: what they       *)
(* return or raise is chosen nondeterministically from fixed catalogues.   *)
(***************************************************************************)
EXTENDS Integers, Sequences, FiniteSets, TLC

VARIABLES
    pc,             \* position of main() / scrape_date_range / scrape_date
    driver,         \* "none" | "open" | "closed": self.driver's session
    acquired,       \* how many times a driver was acquired (_init_driver returned)
    closed,         \* how many times driver.quit() was called
    usedAfterClose, \* a driver call was made on a closed driver
    startArg,       \* args.start_date
    endArg,         \* args.end_date
    current,        \* scrape_date_range: current (a day ordinal)
    endOrd,         \* scrape_date_range: end (a day ordinal)
    date_str,       \* scrape_date_range / scrape_date: date_str
    all_matches,    \* scrape_date_range: all_matches
    matches,        \* self.matches
    rangeRet,       \* the value scrape_date_range returned (Unset before)
    dateRet,        \* the value the running scrape_date call returns
    failed,         \* the running scrape_date call went through an except handler
    trace,          \* the driver/strategy calls of the running scrape_date call
    apiRet,         \* what _extract_from_api returned for this date (Unset before)
    pageRet,        \* what _extract_matches_from_page returned (Unset before)
    log,            \* history: one [date, failed, result] per finished scrape_date
    exc,            \* an exception is propagating out of main's try block
    allFile,        \* rows written to the all-matches CSV (Unset: not written)
    top5File,       \* rows written to the top-5 CSV (Unset: not written)
    fn,             \* pure-function specifications: the function under study
    arg,            \* pure-function specifications: its arguments
    out             \* pure-function specifications: its result (Unset before)

vars == <<pc, driver, acquired, closed, usedAfterClose, startArg, endArg,
          current, endOrd, date_str, all_matches, matches, rangeRet, dateRet,
          failed, trace, apiRet, pageRet, log, exc, allFile, top5File,
          fn, arg, out>>

runVars == <<pc, driver, acquired, closed, usedAfterClose, startArg, endArg,
             current, endOrd, date_str, all_matches, matches, rangeRet,
             dateRet, failed, trace, apiRet, pageRet, log, exc, allFile,
             top5File>>

-----------------------------------------------------------------------------
(* Python values *)

PyNone == [t |-> "none"]
PyInt(n) == [t |-> "int", n |-> n]
PyStr(s) == [t |-> "str", s |-> s]
PyDict(kv) == [t |-> "dict", kv |-> kv]
PyList(items) == [t |-> "list", items |-> items]
Raised == [t |-> "raise"]
Unset == [t |-> "unset"]

EmptyStr == PyStr(<<>>)
EmptyDict == PyDict(<<>>)

\* bool(v): None, 0, '', {} and [] are falsy
Truthy(v) ==
    CASE v.t = "none" -> FALSE
      [] v.t = "int"  -> v.n # 0
      [] v.t = "str"  -> v.s # <<>>
      [] v.t = "dict" -> v.kv # <<>>
      [] v.t = "list" -> v.items # <<>>
      [] OTHER        -> TRUE

\* key in d
HasKey(d, k) == \E i \in 1..Len(d.kv) : d.kv[i][1] = k

\* d[k] for a key that is present
Lookup(d, k) == d.kv[CHOOSE i \in 1..Len(d.kv) : d.kv[i][1] = k][2]

\* mutant: d[k], which raises KeyError for a missing key
DictGet_KeyError(d, k, default) ==
    IF d.t # "dict" THEN Raised
    ELSE IF HasKey(d, k) THEN Lookup(d, k) ELSE Raised

\* d.get(k, default); on anything but a dict the attribute lookup raises
DictGet(d, k, default) ==
    IF d.t # "dict" THEN Raised
    ELSE IF HasKey(d, k) THEN Lookup(d, k) ELSE default

-----------------------------------------------------------------------------
(* Strings *)

Digits == <<"0", "1", "2", "3", "4", "5", "6", "7", "8", "9">>
UpperCase == <<"A", "B", "C", "D", "E", "F", "G", "H", "I", "J", "K", "L", "M",
               "N", "O", "P", "Q", "R", "S", "T", "U", "V", "W", "X", "Y", "Z">>
LowerCase == <<"a", "b", "c", "d", "e", "f", "g", "h", "i", "j", "k", "l", "m",
               "n", "o", "p", "q", "r", "s", "t", "u", "v", "w", "x", "y", "z">>
Whitespace == {" ", "\n", "\t"}

IsDigit(c) == \E i \in 1..Len(Digits) : Digits[i] = c
DigitVal(c) == (CHOOSE i \in 1..Len(Digits) : Digits[i] = c) - 1

LowerChar(c) ==
    IF \E i \in 1..Len(UpperCase) : UpperCase[i] = c
    THEN LowerCase[CHOOSE i \in 1..Len(UpperCase) : UpperCase[i] = c]
    ELSE c

\* str.lower()
StrLower(s) == [i \in 1..Len(s) |-> LowerChar(s[i])]

\* str.strip()
StrStrip(s) ==
    IF \A i \in 1..Len(s) : s[i] \in Whitespace THEN <<>>
    ELSE LET first == CHOOSE i \in 1..Len(s) :
                          s[i] \notin Whitespace /\ \A j \in 1..(i - 1) : s[j] \in Whitespace
             last  == CHOOSE i \in 1..Len(s) :
                          s[i] \notin Whitespace /\ \A j \in (i + 1)..Len(s) : s[j] \in Whitespace
         IN  SubSeq(s, first, last)

\* a in b, for strings
IsSubstring(a, b) ==
    \E i \in 0..(Len(b) - Len(a)) : SubSeq(b, i + 1, i + Len(a)) = a

\* the value of a string of decimal digits
RECURSIVE DigitsValue(_)
DigitsValue(s) ==
    IF s = <<>> THEN 0
    ELSE 10 * DigitsValue(SubSeq(s, 1, Len(s) - 1)) + DigitVal(s[Len(s)])

\* int(s) for a string: surrounding whitespace, an optional sign, then digits
\* (the underscore digit separators int() also accepts are not modelled)
IntOfStr(s) ==
    LET b == StrStrip(s)
        signed == b # <<>> /\ b[1] \in {"+", "-"}
        d == IF signed THEN Tail(b) ELSE b
    IN  IF d = <<>> \/ \E i \in 1..Len(d) : ~IsDigit(d[i]) THEN Raised
        ELSE IF signed /\ b[1] = "-" THEN PyInt(0 - DigitsValue(d))
        ELSE PyInt(DigitsValue(d))

\* int(v)
PyIntOf(v) ==
    CASE v.t = "int" -> v
      [] v.t = "str" -> IntOfStr(v.s)
      [] OTHER       -> Raised

-----------------------------------------------------------------------------
(* _determine_result *)

WIN == PyStr(<<"U+80DC">>)
LOSS == PyStr(<<"U+8D1F">>)
DRAW == PyStr(<<"U+5E73">>)

\* mutant: a draw is reported as a win
CompareGoals_NoDraw(home, away) == IF home >= away THEN WIN ELSE LOSS

\* home > away, with the branches of the if/elif/else
CompareGoals(home, away) ==
    IF home > away THEN WIN
    ELSE IF home < away THEN LOSS
    ELSE DRAW

\* mutant: int(goals), without the default for a falsy value
CoerceGoals_NoDefault(goals) == PyIntOf(goals)

\* int(goals) if goals else 0
CoerceGoals(goals) == IF Truthy(goals) THEN PyIntOf(goals) ELSE PyInt(0)

_determine_result(home_goals, away_goals) ==
    LET home == CoerceGoals(home_goals)
        away == CoerceGoals(away_goals)
    IN  IF home = Raised \/ away = Raised THEN EmptyStr
        ELSE CompareGoals(home.n, away.n)

-----------------------------------------------------------------------------
(* _is_top5_league *)

TOP5_LEAGUES ==
    << <<"P", "r", "e", "m", "i", "e", "r", " ", "L", "e", "a", "g", "u", "e">>,
       <<"L", "a", "L", "i", "g", "a">>,
       <<"L", "a", " ", "L", "i", "g", "a">>,
       <<"B", "u", "n", "d", "e", "s", "l", "i", "g", "a">>,
       <<"S", "e", "r", "i", "e", " ", "A">>,
       <<"L", "i", "g", "u", "e", " ", "1">> >>

\* competition.lower().strip()
NormalizeCompetition(s) == StrStrip(StrLower(s))

\* mutant: the match in one direction only
LeagueMatches_OneWay(league, competition_lower) ==
    IsSubstring(StrLower(league), competition_lower)

\* league.lower() in competition_lower or competition_lower in league.lower()
LeagueMatches(league, competition_lower) ==
    \/ IsSubstring(StrLower(league), competition_lower)
    \/ IsSubstring(competition_lower, StrLower(league))

\* competition is None or a str; TRUE / FALSE is the returned bool
_is_top5_league(competition) ==
    IF ~Truthy(competition) THEN FALSE
    ELSE LET competition_lower == NormalizeCompetition(competition.s)
         IN  \E i \in 1..Len(TOP5_LEAGUES) :
                 LeagueMatches(TOP5_LEAGUES[i], competition_lower)

-----------------------------------------------------------------------------
(* Calendar dates: datetime.strptime / strftime with "%Y-%m-%d", weekday()  *)
(* and timedelta(days=1).  A datetime at midnight is its proleptic          *)
(* Gregorian day ordinal (date.toordinal()).                                *)

IsLeap(y) == (y % 4 = 0) /\ ((y % 100 # 0) \/ (y % 400 = 0))

DaysInMonth(y, m) ==
    IF m = 2 THEN (IF IsLeap(y) THEN 29 ELSE 28)
    ELSE IF m \in {4, 6, 9, 11} THEN 30 ELSE 31

DaysBeforeYear(y) ==
    (y - 1) * 365 + ((y - 1) \div 4) - ((y - 1) \div 100) + ((y - 1) \div 400)

RECURSIVE DaysBeforeMonth(_, _)
DaysBeforeMonth(y, m) ==
    IF m = 1 THEN 0 ELSE DaysBeforeMonth(y, m - 1) + DaysInMonth(y, m - 1)

ToOrdinal(y, m, d) == DaysBeforeYear(y) + DaysBeforeMonth(y, m) + d

\* the <<year, month, day>> of a day ordinal
FromOrdinal(n) ==
    LET guess == (n * 400) \div 146097
        y == CHOOSE yy \in guess..(guess + 2) :
                 DaysBeforeYear(yy) < n /\ n <= DaysBeforeYear(yy + 1)
        r == n - DaysBeforeYear(y)
        m == CHOOSE mm \in 1..12 :
                 DaysBeforeMonth(y, mm) < r /\ r <= DaysBeforeMonth(y, mm) + DaysInMonth(y, mm)
    IN  <<y, m, r - DaysBeforeMonth(y, m)>>

\* s.split(sep)[-1] and s.split(sep)[0 .. -2] for a one-character separator
RECURSIVE SplitChar(_, _)
SplitChar(s, sep) ==
    IF \A i \in 1..Len(s) : s[i] # sep THEN <<s>>
    ELSE LET k == CHOOSE i \in 1..Len(s) :
                      s[i] = sep /\ \A j \in 1..(i - 1) : s[j] # sep
         IN  <<SubSeq(s, 1, k - 1)>> \o SplitChar(SubSeq(s, k + 1, Len(s)), sep)

IsDigits(s) == s # <<>> /\ \A i \in 1..Len(s) : IsDigit(s[i])

\* datetime.strptime(s, "%Y-%m-%d"): the day ordinal, or Raised (ValueError)
Strptime(s) ==
    LET parts == SplitChar(s, "-")
    IN  IF Len(parts) # 3 THEN Raised
        ELSE IF ~(IsDigits(parts[1]) /\ IsDigits(parts[2]) /\ IsDigits(parts[3])) THEN Raised
        ELSE IF Len(parts[1]) # 4 \/ Len(parts[2]) > 2 \/ Len(parts[3]) > 2 THEN Raised
        ELSE LET y == DigitsValue(parts[1])
                 m == DigitsValue(parts[2])
                 d == DigitsValue(parts[3])
             IN  IF y < 1 \/ m \notin 1..12 THEN Raised
                 ELSE IF d < 1 \/ d > DaysInMonth(y, m) THEN Raised
                 ELSE PyInt(ToOrdinal(y, m, d))

TwoDigits(n) == <<Digits[(n \div 10) + 1], Digits[(n % 10) + 1]>>

FourDigits(n) == TwoDigits(n \div 100) \o TwoDigits(n % 100)

\* current.strftime("%Y-%m-%d")
Strftime(n) ==
    LET ymd == FromOrdinal(n)
    IN  FourDigits(ymd[1]) \o <<"-">> \o TwoDigits(ymd[2]) \o <<"-">> \o TwoDigits(ymd[3])

WeekdayNames ==
    << <<"M", "o", "n", "d", "a", "y">>,
       <<"T", "u", "e", "s", "d", "a", "y">>,
       <<"W", "e", "d", "n", "e", "s", "d", "a", "y">>,
       <<"T", "h", "u", "r", "s", "d", "a", "y">>,
       <<"F", "r", "i", "d", "a", "y">>,
       <<"S", "a", "t", "u", "r", "d", "a", "y">>,
       <<"S", "u", "n", "d", "a", "y">> >>

\* weekdays[date_obj.weekday()]; Raised when date_str does not parse
_get_weekday_chinese(ds) ==
    LET date_obj == Strptime(ds)
    IN  IF date_obj = Raised THEN Raised
        ELSE PyStr(WeekdayNames[((date_obj.n + 6) % 7) + 1])

-----------------------------------------------------------------------------
(* _parse_api_event *)

Finished == PyStr(<<"f", "i", "n", "i", "s", "h", "e", "d">>)

UrlBase ==
    <<"h", "t", "t", "p", "s", ":", "/", "/", "w", "w", "w", ".", "s", "o", "f",
      "a", "s", "c", "o", "r", "e", ".", "c", "o", "m", "/">>

RECURSIVE NatDigits(_)
NatDigits(n) ==
    IF n < 10 THEN <<Digits[n + 1]>>
    ELSE NatDigits(n \div 10) \o <<Digits[(n % 10) + 1]>>

\* the text an f-string puts for {v}; a dict or a list is one opaque character
PyFormat(v) ==
    CASE v.t = "str"  -> v.s
      [] v.t = "int"  -> IF v.n < 0 THEN <<"-">> \o NatDigits(0 - v.n) ELSE NatDigits(v.n)
      [] v.t = "none" -> <<"N", "o", "n", "e">>
      [] OTHER        -> <<"<repr>">>

\* datetime.fromtimestamp(ts).strftime("%H:%M"), the local zone taken as UTC;
\* Raised (TypeError) when ts is not a number
TimeOfDay(ts) ==
    IF ts.t # "int" THEN Raised
    ELSE PyStr(TwoDigits((ts.n \div 3600) % 24) \o <<":">> \o TwoDigits((ts.n \div 60) % 60))

\* lines 273-278
TimeStr(start_timestamp) ==
    IF start_timestamp = Raised THEN Raised
    ELSE IF Truthy(start_timestamp) THEN TimeOfDay(start_timestamp)
    ELSE EmptyStr

\* line 282
MatchUrl(slug, match_id) ==
    IF slug = Raised \/ match_id = Raised THEN Raised
    ELSE IF Truthy(slug)
         THEN PyStr(UrlBase \o PyFormat(slug) \o <<"#", "i", "d", ":">> \o PyFormat(match_id))
         ELSE EmptyStr

\* mutant: any event that has a status type is kept
IsFinishedType_AnyStatus(status_type) == status_type # EmptyStr

\* the test of line 236: the event is dropped unless its status type is 'finished'
IsFinishedType(status_type) == status_type = Finished

\* the dict of lines 284-307
ApiRecord(event, ds, weekday) ==
    LET home_team_data == DictGet(event, "homeTeam", EmptyDict)
        away_team_data == DictGet(event, "awayTeam", EmptyDict)
        home_score == DictGet(event, "homeScore", EmptyDict)
        away_score == DictGet(event, "awayScore", EmptyDict)
        home_goals == DictGet(home_score, "current", PyInt(0))
        away_goals == DictGet(away_score, "current", PyInt(0))
        tournament == DictGet(event, "tournament", EmptyDict)
        season_data == DictGet(event, "season", EmptyDict)
        round_info == DictGet(event, "roundInfo", EmptyDict)
        match_id == DictGet(event, "id", EmptyStr)
    IN  [match_id       |-> match_id,
         date           |-> PyStr(ds),
         time           |-> TimeStr(DictGet(event, "startTimestamp", PyInt(0))),
         weekday        |-> weekday,
         competition    |-> DictGet(tournament, "name", EmptyStr),
         season         |-> DictGet(season_data, "name", DictGet(season_data, "year", EmptyStr)),
         round          |-> DictGet(round_info, "round", EmptyStr),
         venue          |-> EmptyStr,
         opponent       |-> EmptyStr,
         home_team      |-> DictGet(home_team_data, "name", EmptyStr),
         away_team      |-> DictGet(away_team_data, "name", EmptyStr),
         home_team_id   |-> DictGet(home_team_data, "id", EmptyStr),
         away_team_id   |-> DictGet(away_team_data, "id", EmptyStr),
         home_goals     |-> home_goals,
         away_goals     |-> away_goals,
         home_ht        |-> DictGet(home_score, "period1", PyInt(0)),
         away_ht        |-> DictGet(away_score, "period1", PyInt(0)),
         team_goals     |-> home_goals,
         opponent_goals |-> away_goals,
         result         |-> _determine_result(home_goals, away_goals),
         status         |-> Finished,
         match_url      |-> MatchUrl(DictGet(event, "slug", EmptyStr), match_id)]

\* some statement of the try block raised
RecordRaised(r) == \E f \in DOMAIN r : r[f] = Raised

\* the MatchRecord, or PyNone (line 237, or the except handler of lines 309-311)
_parse_api_event(event, ds, weekday) ==
    LET status == DictGet(event, "status", EmptyDict)
        status_type == DictGet(status, "type", EmptyStr)
    IN  IF status_type = Raised THEN PyNone
        ELSE IF ~IsFinishedType(status_type) THEN PyNone
        ELSE LET r == ApiRecord(event, ds, weekday)
             IN  IF RecordRaised(r) THEN PyNone ELSE r

\* the loop "match = ...; if match: matches.append(match)" (lines 219-222, 399-402)
RECURSIVE ParseEvents(_, _, _)
ParseEvents(events, ds, weekday) ==
    IF events = <<>> THEN <<>>
    ELSE LET match == _parse_api_event(Head(events), ds, weekday)
         IN  (IF match = PyNone THEN <<>> ELSE <<match>>)
             \o ParseEvents(Tail(events), ds, weekday)

-----------------------------------------------------------------------------
(* _parse_json_match_data *)

\* find_events: the 'events' lists of a parsed JSON value, own list first,
\* then those of the values in insertion order
RECURSIVE FindEvents(_), FindEventsAll(_)
FindEvents(obj) ==
    IF obj.t = "dict"
    THEN (IF HasKey(obj, "events") /\ Lookup(obj, "events").t = "list"
          THEN Lookup(obj, "events").items ELSE <<>>)
         \o FindEventsAll([i \in 1..Len(obj.kv) |-> obj.kv[i][2]])
    ELSE IF obj.t = "list" THEN FindEventsAll(obj.items)
    ELSE <<>>

FindEventsAll(vals) ==
    IF vals = <<>> THEN <<>>
    ELSE FindEvents(Head(vals)) \o FindEventsAll(Tail(vals))

_parse_json_match_data(json_data, ds, weekday) ==
    ParseEvents(FindEvents(json_data), ds, weekday)

-----------------------------------------------------------------------------
(* _parse_match_element.  An element is [href, text]: what                  *)
(* get_attribute('href') and .text return (Raised: the call raises).        *)

\* s.split(sep)[-1] for a separator that occurs in s
AfterLast(s, sep) ==
    LET k == CHOOSE i \in 0..(Len(s) - Len(sep)) :
                 /\ SubSeq(s, i + 1, i + Len(sep)) = sep
                 /\ \A j \in (i + 1)..(Len(s) - Len(sep)) : SubSeq(s, j + 1, j + Len(sep)) # sep
    IN  SubSeq(s, k + Len(sep) + 1, Len(s))

\* lines 320-324
MatchIdOfHref(href) ==
    IF IsSubstring(<<"#", "i", "d", ":">>, href) THEN AfterLast(href, <<"#", "i", "d", ":">>)
    ELSE IF IsSubstring(<<"/", "i", "d", ":">>, href) THEN AfterLast(href, <<"/", "i", "d", ":">>)
    ELSE <<>>

\* the last index of the longest run of digits starting at i (i - 1: none)
DigitRunEnd(s, i) ==
    CHOOSE e \in (i - 1)..Len(s) :
        (\A j \in i..e : IsDigit(s[j])) /\ (e = Len(s) \/ ~IsDigit(s[e + 1]))

\* the last index of the longest run of whitespace starting at i (i - 1: none)
SpaceRunEnd(s, i) ==
    CHOOSE e \in (i - 1)..Len(s) :
        (\A j \in i..e : s[j] \in Whitespace) /\ (e = Len(s) \/ s[e + 1] \notin Whitespace)

\* (\d+)\s*[-:]\s*(\d+) matched at position i: <<group 1, group 2>>, or <<>>
ScoreMatchAt(s, i) ==
    LET e1 == DigitRunEnd(s, i)
        sp == SpaceRunEnd(s, e1 + 1) + 1
        k  == SpaceRunEnd(s, sp + 1) + 1
        e2 == DigitRunEnd(s, k)
    IN  IF e1 < i \/ sp > Len(s) THEN <<>>
        ELSE IF s[sp] \notin {"-", ":"} \/ e2 < k THEN <<>>
        ELSE <<SubSeq(s, i, e1), SubSeq(s, k, e2)>>

\* re.search(score_pattern, text): the leftmost match, or <<>>
ScoreSearch(s) ==
    IF \A i \in 1..Len(s) : ScoreMatchAt(s, i) = <<>> THEN <<>>
    ELSE ScoreMatchAt(s, CHOOSE i \in 1..Len(s) :
             ScoreMatchAt(s, i) # <<>> /\ \A j \in 1..(i - 1) : ScoreMatchAt(s, j) = <<>>)

\* lines 347-351
DomGoals(text) ==
    LET score_match == ScoreSearch(text)
    IN  IF score_match = <<>> THEN <<0, 0>>
        ELSE <<DigitsValue(score_match[1]), DigitsValue(score_match[2])>>

\* the dict of lines 353-376
DomRecord(href, text, ds, weekday) ==
    LET lines == SplitChar(text, "\n")
        goals == DomGoals(text)
    IN  [match_id       |-> PyStr(MatchIdOfHref(href.s)),
         date           |-> PyStr(ds),
         time           |-> EmptyStr,
         weekday        |-> weekday,
         competition    |-> EmptyStr,
         season         |-> EmptyStr,
         round          |-> EmptyStr,
         venue          |-> EmptyStr,
         opponent       |-> EmptyStr,
         home_team      |-> PyStr(StrStrip(lines[1])),
         away_team      |-> PyStr(StrStrip(lines[Len(lines)])),
         home_team_id   |-> EmptyStr,
         away_team_id   |-> EmptyStr,
         home_goals     |-> PyInt(goals[1]),
         away_goals     |-> PyInt(goals[2]),
         home_ht        |-> EmptyStr,
         away_ht        |-> EmptyStr,
         team_goals     |-> PyInt(goals[1]),
         opponent_goals |-> PyInt(goals[2]),
         result         |-> _determine_result(PyInt(goals[1]), PyInt(goals[2])),
         status         |-> Finished,
         match_url      |-> href]

\* the MatchRecord, or PyNone (lines 329-330, 336-337, 378-379)
_parse_match_element(elem, ds, weekday) ==
    IF elem.href = Raised \/ elem.text = Raised THEN PyNone
    ELSE LET href == IF Truthy(elem.href) THEN elem.href ELSE EmptyStr
             text == StrStrip(elem.text.s)
         IN  IF text = <<>> THEN PyNone
             ELSE IF Len(SplitChar(text, "\n")) < 2 THEN PyNone
             ELSE DomRecord(href, text, ds, weekday)

\* the loop of lines 153-159
RECURSIVE ParseElements(_, _, _)
ParseElements(elems, ds, weekday) ==
    IF elems = <<>> THEN <<>>
    ELSE LET match_data == _parse_match_element(Head(elems), ds, weekday)
         IN  (IF match_data = PyNone THEN <<>> ELSE <<match_data>>)
             \o ParseElements(Tail(elems), ds, weekday)

-----------------------------------------------------------------------------
(* The environment: what the API, the page and the command line can hold.   *)

MaxDays == 3

\* the first day of the window the command-line dates are drawn from
FirstDay == ToOrdinal(2025, 12, 30)

WindowDates == {Strftime(FirstDay + i) : i \in 0..(MaxDays - 1)}

\* a date without zero padding (strptime accepts it) and one that is no date
UnpaddedDate == <<"2", "0", "2", "6", "-", "1", "-", "1">>
NoDate == <<"2", "0", "2", "5", "-", "0", "2", "-", "3", "0">>

StartArgs == WindowDates \cup {UnpaddedDate, NoDate}
EndArgs == WindowDates \cup {NoDate}

\* lines 473-474: strptime of each argument main() can pass, evaluated once
StrptimeOf == [s \in StartArgs \cup EndArgs |-> Strptime(s)]

\* line 477: strftime of each day of the window, evaluated once
StrftimeOf == [n \in FirstDay..(FirstDay + MaxDays - 1) |-> Strftime(n)]

StatusOf(type) == <<"status", PyDict(<< <<"type", PyStr(type)>> >>)>>
TeamOf(key, name, id) == <<key, PyDict(<< <<"name", PyStr(name)>>, <<"id", PyInt(id)>> >>)>>
ScoreOf(key, cur, ht) == <<key, PyDict(<< <<"current", cur>>, <<"period1", ht>> >>)>>
TournamentOf(name) == <<"tournament", PyDict(<< <<"name", PyStr(name)>> >>)>>

EvArsenal ==
    PyDict(<< <<"id", PyInt(101)>>,
              <<"slug", PyStr(<<"a", "r", "s", "e", "n", "a", "l", "-", "c", "h", "e", "l", "s", "e", "a">>)>>,
              StatusOf(<<"f", "i", "n", "i", "s", "h", "e", "d">>),
              TeamOf("homeTeam", <<"A", "r", "s", "e", "n", "a", "l">>, 42),
              TeamOf("awayTeam", <<"C", "h", "e", "l", "s", "e", "a">>, 38),
              ScoreOf("homeScore", PyInt(2), PyInt(1)),
              ScoreOf("awayScore", PyInt(1), PyInt(0)),
              TournamentOf(<<"P", "r", "e", "m", "i", "e", "r", " ", "L", "e", "a", "g", "u", "e">>),
              <<"season", PyDict(<< <<"name", PyStr(<<"2", "5", "/", "2", "6">>)>>, <<"year", PyStr(<<"2", "5", "/", "2", "6">>)>> >>)>>,
              <<"roundInfo", PyDict(<< <<"round", PyInt(19)>> >>)>>,
              <<"startTimestamp", PyInt(1767123000)>> >>)

EvRoma ==
    PyDict(<< StatusOf(<<"f", "i", "n", "i", "s", "h", "e", "d">>),
              <<"homeTeam", PyDict(<< <<"name", PyStr(<<"R", "o", "m", "a">>)>> >>)>>,
              <<"awayTeam", PyDict(<< <<"name", PyStr(<<"L", "a", "z", "i", "o">>)>> >>)>>,
              <<"homeScore", PyDict(<< <<"current", PyInt(1)>> >>)>>,
              <<"awayScore", PyDict(<< <<"current", PyInt(2)>> >>)>>,
              TournamentOf(<<"S", "e", "r", "i", "e", " ", "A">>),
              <<"season", PyDict(<< <<"year", PyStr(<<"2", "5", "/", "2", "6">>)>> >>)>> >>)

EvNotStarted ==
    PyDict(<< <<"id", PyInt(102)>>,
              StatusOf(<<"n", "o", "t", "s", "t", "a", "r", "t", "e", "d">>),
              TeamOf("homeTeam", <<"A", "j", "a", "x">>, 7),
              TeamOf("awayTeam", <<"P", "S", "V">>, 8) >>)

\* a finished event with every optional field missing
EvBare == PyDict(<< StatusOf(<<"f", "i", "n", "i", "s", "h", "e", "d">>) >>)

EvNoStatus == PyDict(<< <<"id", PyInt(103)>>, ScoreOf("homeScore", PyInt(1), PyInt(0)) >>)

\* "homeTeam": null
EvNullTeam ==
    PyDict(<< StatusOf(<<"f", "i", "n", "i", "s", "h", "e", "d">>),
              <<"homeTeam", PyNone>>,
              ScoreOf("homeScore", PyInt(3), PyInt(1)) >>)

\* "homeScore": {"current": "x", ...}
EvBadScore ==
    PyDict(<< <<"id", PyInt(104)>>,
              StatusOf(<<"f", "i", "n", "i", "s", "h", "e", "d">>),
              TeamOf("homeTeam", <<"L", "y", "o", "n">>, 5),
              TeamOf("awayTeam", <<"N", "i", "c", "e">>, 6),
              ScoreOf("homeScore", PyStr(<<"x">>), PyInt(0)),
              ScoreOf("awayScore", PyInt(1), PyInt(0)) >>)

EventsOf(evs) == PyDict(<< <<"events", PyList(evs)>> >>)

\* what driver.execute_script returns for the fetch of line 216
ApiResponses ==
    { Raised,
      PyNone,
      PyDict(<< <<"error", PyInt(404)>> >>),
      PyDict(<< <<"events", PyNone>> >>),
      EventsOf(<<>>),
      EventsOf(<<EvArsenal>>),
      EventsOf(<<EvNotStarted>>),
      EventsOf(<<EvNoStatus, EvNotStarted>>),
      EventsOf(<<EvNotStarted, EvArsenal>>),
      EventsOf(<<EvNullTeam, EvRoma>>),
      EventsOf(<<EvBadScore>>),
      EventsOf(<<EvBare>>) }

ElBayern == [href |-> PyStr(<<"/", "f", "o", "o", "t", "b", "a", "l", "l", "/", "m", "a", "t", "c", "h", "/", "x", "#", "i", "d", ":", "7", "7", "7">>),
             text |-> PyStr(<<"B", "a", "y", "e", "r", "n", "\n", "3", " ", "-", " ", "0", "\n", "D", "o", "r", "t", "m", "u", "n", "d">>)]
ElRoma == [href |-> PyNone, text |-> PyStr(<<" ", "R", "o", "m", "a", " ", "\n", "1", ":", "2", "\n", "L", "a", "z", "i", "o", "\n">>)]
ElNoScore == [href |-> PyStr(<<"/", "f", "o", "o", "t", "b", "a", "l", "l", "/", "i", "d", ":", "9">>), text |-> PyStr(<<"A", "j", "a", "x", "\n", "P", "S", "V">>)]
ElBlank == [href |-> PyStr(<<"/", "f", "o", "o", "t", "b", "a", "l", "l", "/">>), text |-> PyStr(<<" ", "\n">>)]
ElOneLine == [href |-> PyStr(<<"/", "f", "o", "o", "t", "b", "a", "l", "l", "/">>), text |-> PyStr(<<"1", "2", ":", "3", "0">>)]
ElStale == [href |-> Raised, text |-> Raised]

\* a parsed JSON text, and a text json.loads rejects
JsonText(v) == [t |-> "json", value |-> v]
NotJson == PyStr(<<"<", "h", "t", "m", "l", ">">>)

NextData ==
    PyDict(<< <<"props", PyDict(<< <<"pageProps", EventsOf(<<EvArsenal, EvNotStarted>>)>> >>)>>,
              <<"list", PyList(<< PyInt(1), EventsOf(<<EvRoma>>) >>)>> >>)

NoEventsData == PyDict(<< <<"props", PyDict(<< <<"events", PyInt(0)>> >>)>> >>)

\* what the page holds: what find_elements returns for each of the three
\* selectors (Raised: it raises) and what the script of line 191 returns
PageOf(s1, s2, s3, script) == [sel |-> <<s1, s2, s3>>, script |-> script]

Pages ==
    { PageOf(PyList(<<ElBayern>>), PyList(<<ElRoma>>), PyList(<<>>), PyNone),
      PageOf(PyList(<<>>), Raised, PyList(<<ElBlank, ElRoma>>), JsonText(NextData)),
      PageOf(Raised, PyList(<<ElOneLine, ElStale>>), PyList(<<ElNoScore>>), JsonText(NextData)),
      PageOf(PyList(<<>>), PyList(<<>>), PyList(<<ElNoScore>>), PyNone),
      PageOf(PyList(<<>>), PyList(<<>>), PyList(<<>>), PyNone),
      PageOf(PyList(<<>>), PyList(<<>>), PyList(<<>>), EmptyStr),
      PageOf(Raised, Raised, Raised, Raised),
      PageOf(PyList(<<>>), Raised, PyList(<<>>), NotJson),
      PageOf(PyList(<<>>), PyList(<<>>), PyList(<<>>), JsonText(NoEventsData)),
      PageOf(Raised, PyList(<<>>), PyList(<<>>), JsonText(NextData)) }

-----------------------------------------------------------------------------
(* The extraction strategies, as functions of what the driver returns.      *)

\* the body of the try block of lines 206-222, for data = execute_script(...)
ApiMatches(data, ds, weekday) ==
    IF ~Truthy(data) THEN <<>>
    ELSE IF data.t # "dict" THEN <<>>
    ELSE IF ~HasKey(data, "events") THEN <<>>
    ELSE IF Lookup(data, "events").t # "list" THEN <<>>
    ELSE ParseEvents(Lookup(data, "events").items, ds, weekday)

\* a raising execute_script is caught by lines 224-225
_extract_from_api(data, ds, weekday) ==
    IF data = Raised THEN <<>> ELSE ApiMatches(data, ds, weekday)

\* json.loads(data)
JsonLoads(data) == IF data.t = "json" THEN data.value ELSE Raised

\* lines 191-198
_extract_from_script_data(data, ds, weekday) ==
    IF data = Raised THEN <<>>
    ELSE IF ~Truthy(data) THEN <<>>
    ELSE IF JsonLoads(data) = Raised THEN <<>>
    ELSE _parse_json_match_data(JsonLoads(data), ds, weekday)

EventSelectors == <<"a[data-testid='event_cell']", "div[class*='event']", "a[href*='/football/']">>

\* find_elements returned a non-empty list for selector i
SelectorYields(page, i) == page.sel[i] # Raised /\ Truthy(page.sel[i])

\* mutant: the loop has no break, the last selector that yields is kept
ChosenSelector_Last(page) ==
    IF \A i \in 1..Len(EventSelectors) : ~SelectorYields(page, i) THEN 0
    ELSE CHOOSE i \in 1..Len(EventSelectors) :
             SelectorYields(page, i)
             /\ \A j \in (i + 1)..Len(EventSelectors) : ~SelectorYields(page, j)

\* the loop of lines 137-144: the selector whose elements are kept (0: none)
ChosenSelector(page) ==
    IF \A i \in 1..Len(EventSelectors) : ~SelectorYields(page, i) THEN 0
    ELSE CHOOSE i \in 1..Len(EventSelectors) :
             SelectorYields(page, i) /\ \A j \in 1..(i - 1) : ~SelectorYields(page, j)

\* lines 124-166: the list returned, or Raised when line 125, outside the try
\* block, raises.  No
\* statement of the try block raises into the handler of lines 161-164: the
\* selector loop, _extract_from_script_data and the element loop each catch
\* what they raise.
_extract_matches_from_page(page, ds) ==
    LET weekday == _get_weekday_chinese(ds)
        chosen == ChosenSelector(page)
    IN  IF weekday = Raised THEN Raised
        ELSE IF chosen = 0 THEN PyList(_extract_from_script_data(page.script, ds, weekday))
        ELSE PyList(ParseElements(page.sel[chosen].items, ds, weekday))

\* mutant: a raising script reaches the handler of lines 161-164, which calls
\* the API strategy again
PageCalls_HandlerFallback(page) ==
    LET chosen == ChosenSelector(page)
        tried == IF chosen = 0 THEN Len(EventSelectors) ELSE chosen
    IN  [i \in 1..tried |-> EventSelectors[i]]
        \o (IF chosen = 0 THEN <<"script_data">> ELSE <<>>)
        \o (IF chosen = 0 /\ page.script = Raised THEN <<"api">> ELSE <<>>)

\* the driver calls _extract_matches_from_page makes, in order
PageCalls(page) ==
    LET chosen == ChosenSelector(page)
        tried == IF chosen = 0 THEN Len(EventSelectors) ELSE chosen
    IN  [i \in 1..tried |-> EventSelectors[i]]
        \o (IF chosen = 0 THEN <<"script_data">> ELSE <<>>)

\* the list comprehension of line 515
RECURSIVE Top5Of(_)
Top5Of(ms) ==
    IF ms = <<>> THEN <<>>
    ELSE (IF _is_top5_league(Head(ms).competition) THEN <<Head(ms)>> ELSE <<>>)
         \o Top5Of(Tail(ms))

\* competition.lower() raises on anything but None, '' or a str
LowerRaises(ms) ==
    \E i \in 1..Len(ms) : Truthy(ms[i].competition) /\ ms[i].competition.t # "str"

\* the list returned, or Raised
get_top5_matches(ms) == IF LowerRaises(ms) THEN Raised ELSE PyList(Top5Of(ms))

\* lines 444-446: the API strategy's list for each date of the window and each
\* response of the driver (Raised: line 444 raises)
ApiResults ==
    [ds \in WindowDates |->
        [data \in ApiResponses |->
            LET weekday == _get_weekday_chinese(ds)
            IN  IF weekday = Raised THEN Raised
                ELSE PyList(_extract_from_api(data, ds, weekday))]]

\* line 448: the page-based chain's list for each date of the window and each
\* page
PageResults ==
    [ds \in WindowDates |->
        [page \in Pages |-> _extract_matches_from_page(page, ds)]]

-----------------------------------------------------------------------------
(* main() *)

Idle == /\ fn = "none" /\ arg = Unset /\ out = Unset

Init ==
    /\ pc = "start"
    /\ driver = "none"
    /\ acquired = 0
    /\ closed = 0
    /\ usedAfterClose = FALSE
    /\ startArg \in StartArgs
    /\ endArg \in EndArgs
    /\ current = 0
    /\ endOrd = 0
    /\ date_str = <<>>
    /\ all_matches = <<>>
    /\ matches = <<>>
    /\ rangeRet = Unset
    /\ dateRet = <<>>
    /\ failed = FALSE
    /\ trace = <<>>
    /\ apiRet = Unset
    /\ pageRet = Unset
    /\ log = <<>>
    /\ exc = FALSE
    /\ allFile = Unset
    /\ top5File = Unset
    /\ Idle

\* a call on self.driver
UseDriver == usedAfterClose' = (usedAfterClose \/ driver = "closed")

\* line 599: SofaScoreScraper(...) returns, self.driver and self.matches set
InitDriverOk ==
    /\ pc = "start"
    /\ driver' = "open"
    /\ acquired' = acquired + 1
    /\ matches' = <<>>
    /\ pc' = "range"
    /\ UNCHANGED <<closed, usedAfterClose, startArg, endArg, current, endOrd,
                   date_str, all_matches, rangeRet, dateRet, failed, trace,
                   apiRet, pageRet, log, exc, allFile, top5File, fn, arg, out>>

\* line 599: _init_driver raises; main has not entered its try block
InitDriverRaises ==
    /\ pc = "start"
    /\ pc' = "crashed"
    /\ UNCHANGED <<driver, acquired, closed, usedAfterClose, startArg, endArg,
                   current, endOrd, date_str, all_matches, matches, rangeRet,
                   dateRet, failed, trace, apiRet, pageRet, log, exc, allFile,
                   top5File, fn, arg, out>>

\* lines 471-474: strptime of a string that is no date raises out of the call
ScrapeDateRangeBegin ==
    /\ pc = "range"
    /\ all_matches' = <<>>
    /\ IF StrptimeOf[startArg] = Raised \/ StrptimeOf[endArg] = Raised
       THEN /\ exc' = TRUE
            /\ pc' = "finally"
            /\ UNCHANGED <<current, endOrd>>
       ELSE /\ current' = StrptimeOf[startArg].n
            /\ endOrd' = StrptimeOf[endArg].n
            /\ pc' = "loop"
            /\ UNCHANGED exc
    /\ UNCHANGED <<driver, acquired, closed, usedAfterClose, startArg, endArg,
                   date_str, matches, rangeRet, dateRet, failed, trace, apiRet,
                   pageRet, log, allFile, top5File, fn, arg, out>>

\* mutant: the end date is excluded
LoopTest_Strict(cur, end) == cur < end

\* line 476: while current <= end
LoopTest(cur, end) == cur <= end

\* lines 476-478: the loop test holds; scrape_date(date_str) is entered
LoopEnter ==
    /\ pc = "loop"
    /\ LoopTest(current, endOrd)
    /\ date_str' = StrftimeOf[current]
    /\ dateRet' = <<>>
    /\ failed' = FALSE
    /\ trace' = <<>>
    /\ apiRet' = Unset
    /\ pageRet' = Unset
    /\ pc' = "get"
    /\ UNCHANGED <<driver, acquired, closed, usedAfterClose, startArg, endArg,
                   current, endOrd, all_matches, matches, rangeRet, log, exc,
                   allFile, top5File, fn, arg, out>>

\* lines 476, 486-487: the loop test fails
LoopExit ==
    /\ pc = "loop"
    /\ ~LoopTest(current, endOrd)
    /\ matches' = all_matches
    /\ rangeRet' = PyList(all_matches)
    /\ pc' = "save"
    /\ UNCHANGED <<driver, acquired, closed, usedAfterClose, startArg, endArg,
                   current, endOrd, date_str, all_matches, dateRet, failed,
                   trace, apiRet, pageRet, log, exc, allFile, top5File, fn,
                   arg, out>>

\* line 435: driver.get(url) returns
DriverGetOk ==
    /\ pc = "get"
    /\ UseDriver
    /\ trace' = Append(trace, "get")
    /\ pc' = "api"
    /\ UNCHANGED <<driver, acquired, closed, startArg, endArg, current, endOrd,
                   date_str, all_matches, matches, rangeRet, dateRet, failed,
                   apiRet, pageRet, log, exc, allFile, top5File, fn, arg, out>>

\* mutant: no except clause, the exception leaves scrape_date_range
ScrapeDateHandler_Propagates ==
    /\ dateRet' = <<>>
    /\ failed' = TRUE
    /\ pc' = "finally"
    /\ exc' = TRUE

\* lines 453-458: an exception inside scrape_date's try block: return []
ScrapeDateHandler ==
    /\ dateRet' = <<>>
    /\ failed' = TRUE
    /\ pc' = "extend"
    /\ exc' = exc

\* line 435: driver.get(url) raises (TimeoutException or another Exception)
DriverGetRaises ==
    /\ pc = "get"
    /\ UseDriver
    /\ trace' = Append(trace, "get")
    /\ ScrapeDateHandler
    /\ UNCHANGED <<driver, acquired, closed, startArg, endArg, current, endOrd,
                   date_str, all_matches, matches, rangeRet, apiRet, pageRet,
                   log, allFile, top5File, fn, arg, out>>

\* mutant: the page-based chain runs whatever the API strategy found
NeedsPage_Always(ms) == TRUE

\* line 446: the page-based chain runs only when the API strategy found nothing
NeedsPage(ms) == ms = <<>>

\* lines 444-446, 450-451: the API strategy, and the return when it found matches
ExtractFromApi ==
    /\ pc = "api"
    /\ UseDriver
    /\ trace' = Append(trace, "api")
    /\ \E data \in ApiResponses :
           LET ms == ApiResults[date_str][data]
           IN  IF ms = Raised
               THEN ScrapeDateHandler /\ UNCHANGED apiRet
               ELSE /\ apiRet' = ms
                    /\ dateRet' = ms.items
                    /\ pc' = IF NeedsPage(ms.items) THEN "page" ELSE "extend"
                    /\ UNCHANGED <<failed, exc>>
    /\ UNCHANGED <<driver, acquired, closed, startArg, endArg, current, endOrd,
                   date_str, all_matches, matches, rangeRet, pageRet, log,
                   allFile, top5File, fn, arg, out>>

\* lines 448, 450-451: the page-based chain, and the return
ExtractMatchesFromPage ==
    /\ pc = "page"
    /\ UseDriver
    /\ \E page \in Pages :
           LET ms == PageResults[date_str][page]
           IN  /\ trace' = Append(trace, "page") \o PageCalls(page)
               /\ IF ms = Raised
                  THEN ScrapeDateHandler /\ UNCHANGED pageRet
                  ELSE /\ pageRet' = ms
                       /\ dateRet' = ms.items
                       /\ pc' = "extend"
                       /\ UNCHANGED <<failed, exc>>
    /\ UNCHANGED <<driver, acquired, closed, startArg, endArg, current, endOrd,
                   date_str, all_matches, matches, rangeRet, apiRet, log,
                   allFile, top5File, fn, arg, out>>

\* lines 478-484: scrape_date has returned
Extend ==
    /\ pc = "extend"
    /\ all_matches' = all_matches \o dateRet
    /\ log' = Append(log, [date |-> date_str, failed |-> failed, result |-> dateRet])
    /\ current' = current + 1
    /\ pc' = "loop"
    /\ UNCHANGED <<driver, acquired, closed, usedAfterClose, startArg, endArg,
                   endOrd, date_str, matches, rangeRet, dateRet, failed, trace,
                   apiRet, pageRet, exc, allFile, top5File, fn, arg, out>>

\* lines 556-567: nothing to save, or both files written
SaveToCsvOk ==
    /\ pc = "save"
    /\ IF matches = <<>>
       THEN UNCHANGED <<allFile, top5File>>
       ELSE /\ get_top5_matches(matches) # Raised
            /\ allFile' = PyList(matches)
            /\ top5File' = get_top5_matches(matches)
    /\ pc' = "finally"
    /\ UNCHANGED <<driver, acquired, closed, usedAfterClose, startArg, endArg,
                   current, endOrd, date_str, all_matches, matches, rangeRet,
                   dateRet, failed, trace, apiRet, pageRet, log, exc, fn, arg,
                   out>>

\* lines 561-566: open() raises for the first file, or for the second one
\* (or get_top5_matches raises) after the first is written
SaveToCsvRaises ==
    /\ pc = "save"
    /\ matches # <<>>
    /\ \E firstWritten \in BOOLEAN :
           /\ (get_top5_matches(matches) = Raised) => firstWritten
           /\ allFile' = IF firstWritten THEN PyList(matches) ELSE Unset
    /\ exc' = TRUE
    /\ pc' = "finally"
    /\ UNCHANGED <<driver, acquired, closed, usedAfterClose, startArg, endArg,
                   current, endOrd, date_str, all_matches, matches, rangeRet,
                   dateRet, failed, trace, apiRet, pageRet, log, top5File, fn,
                   arg, out>>

\* some exception leaves main: one raised in the try block, or by quit()
Propagates(pending, quitRaises) == pending \/ quitRaises

\* mutant: close() after save_to_csv instead of in a finally clause
Close_OnlyOnSuccess ==
    /\ pc = "finally"
    /\ IF exc
       THEN /\ pc' = "crashed"
            /\ UNCHANGED <<driver, closed, usedAfterClose>>
       ELSE /\ UseDriver
            /\ driver' = "closed"
            /\ closed' = closed + 1
            /\ \E quitRaises \in BOOLEAN :
                   pc' = IF quitRaises THEN "crashed" ELSE "done"
    /\ UNCHANGED <<acquired, startArg, endArg, current, endOrd, date_str,
                   all_matches, matches, rangeRet, dateRet, failed, trace,
                   apiRet, pageRet, log, exc, allFile, top5File, fn, arg, out>>

\* lines 604-607, 569-572: the finally clause; quit() may raise itself
Close ==
    /\ pc = "finally"
    /\ driver # "none"
    /\ UseDriver
    /\ driver' = "closed"
    /\ closed' = closed + 1
    /\ \E quitRaises \in BOOLEAN :
           pc' = IF Propagates(exc, quitRaises) THEN "crashed" ELSE "done"
    /\ UNCHANGED <<acquired, startArg, endArg, current, endOrd, date_str,
                   all_matches, matches, rangeRet, dateRet, failed, trace,
                   apiRet, pageRet, log, exc, allFile, top5File, fn, arg, out>>

Next ==
    \/ InitDriverOk
    \/ InitDriverRaises
    \/ ScrapeDateRangeBegin
    \/ LoopEnter
    \/ LoopExit
    \/ DriverGetOk
    \/ DriverGetRaises
    \/ ExtractFromApi
    \/ ExtractMatchesFromPage
    \/ Extend
    \/ SaveToCsvOk
    \/ SaveToCsvRaises
    \/ Close

Spec == Init /\ [][Next]_vars

\* lines 460-487, 421-458: a step of scrape_date_range
ScrapeDateRange ==
    \/ ScrapeDateRangeBegin
    \/ LoopEnter
    \/ LoopExit
    \/ DriverGetOk
    \/ DriverGetRaises
    \/ ExtractFromApi
    \/ ExtractMatchesFromPage
    \/ Extend

\* scrape_date_range runs in one thread and each of its steps returns: the
\* sleeps are finite and the driver calls return or raise
FairSpec == Spec /\ WF_vars(ScrapeDateRange)

-----------------------------------------------------------------------------
(* The pure functions on their own: the arguments are drawn from bounded    *)
(* sets, one action applies the function.  main() does not run.             *)

RunIdle ==
    /\ pc = "idle"
    /\ driver = "none"
    /\ acquired = 0
    /\ closed = 0
    /\ usedAfterClose = FALSE
    /\ startArg = <<>>
    /\ endArg = <<>>
    /\ current = 0
    /\ endOrd = 0
    /\ date_str = <<>>
    /\ all_matches = <<>>
    /\ matches = <<>>
    /\ rangeRet = Unset
    /\ dateRet = <<>>
    /\ failed = FALSE
    /\ trace = <<>>
    /\ apiRet = Unset
    /\ pageRet = Unset
    /\ log = <<>>
    /\ exc = FALSE
    /\ allFile = Unset
    /\ top5File = Unset

PyBool(b) == [t |-> "bool", b |-> b]

\* all strings over an alphabet, up to a length
RECURSIVE StringsUpTo(_, _)
StringsUpTo(alphabet, n) ==
    IF n = 0 THEN {<<>>}
    ELSE LET shorter == StringsUpTo(alphabet, n - 1)
         IN  shorter \cup {Append(w, c) : w \in shorter, c \in alphabet}

MaxGoal == 3
MaxGoalLen == 2

GoalAlphabet == {"1", "2", "-", " ", "x"}

\* what a score can be: None, an int, a str, a dict, a list
GoalValues ==
    {PyNone, EmptyDict, PyList(<<>>), PyList(<<PyInt(1)>>),
     PyDict(<< <<"current", PyInt(1)>> >>)}
    \cup {PyInt(n) : n \in (0 - MaxGoal)..MaxGoal}
    \cup {PyStr(w) : w \in StringsUpTo(GoalAlphabet, MaxGoalLen)}

ClassifyInit ==
    /\ RunIdle
    /\ fn = "_determine_result"
    /\ arg \in GoalValues \X GoalValues
    /\ out = Unset

Classify ==
    /\ fn = "_determine_result"
    /\ out = Unset
    /\ out' = _determine_result(arg[1], arg[2])
    /\ UNCHANGED <<runVars, fn, arg>>

ClassifyNext == Classify

ClassifySpec == ClassifyInit /\ [][ClassifyNext]_vars

MaxNameLen == 3

LeagueAlphabet == {"a", "l", "L", "i", " "}

CompetitionNames ==
    { <<"p", "r", "e", "m", "i", "e", "r", " ", "l", "e", "a", "g", "u", "e">>,
      <<"P", "R", "E", "M", "I", "E", "R", " ", "L", "E", "A", "G", "U", "E", " ", "2", "0", "2", "4", "/", "2", "5">>,
      <<"L", "a", " ", "L", "i", "g", "a">>,
      <<"C", "h", "a", "m", "p", "i", "o", "n", "s", "h", "i", "p">>,
      <<" ", "S", "e", "r", "i", "e", " ", "A", "\n">>,
      <<"2", ".", " ", "B", "u", "n", "d", "e", "s", "l", "i", "g", "a">>,
      <<"L", "i", "g", "a", " ">> }

\* m.get('competition', ''): None, or a str
Competitions ==
    {PyNone} \cup {PyStr(w) : w \in CompetitionNames \cup StringsUpTo(LeagueAlphabet, MaxNameLen)}

LeagueInit ==
    /\ RunIdle
    /\ fn = "_is_top5_league"
    /\ arg \in Competitions
    /\ out = Unset

IsTop5League ==
    /\ fn = "_is_top5_league"
    /\ out = Unset
    /\ out' = PyBool(_is_top5_league(arg))
    /\ UNCHANGED <<runVars, fn, arg>>

LeagueNext == IsTop5League

LeagueSpec == LeagueInit /\ [][LeagueNext]_vars

MaxDefects == 2

EventKeys == {EvArsenal.kv[i][1] : i \in 1..Len(EvArsenal.kv)}

DefectKinds == {"missing", "null", "empty", "bad"}

\* the value a defect puts in place of a field of the API's event
Defect(key, kind) ==
    CASE kind = "null" -> PyNone
      [] kind = "empty" ->
            (CASE key = "id" -> EmptyStr
               [] key = "slug" -> EmptyStr
               [] key = "startTimestamp" -> PyInt(0)
               [] OTHER -> EmptyDict)
      [] OTHER ->
            (CASE key = "id" -> PyStr(<<"a", "b", "c">>)
               [] key = "slug" -> PyInt(7)
               [] key = "status" -> PyDict(<< <<"type", PyStr(<<"i", "n", "p", "r", "o", "g", "r", "e", "s", "s">>)>> >>)
               [] key = "homeTeam" -> PyList(<<>>)
               [] key = "awayTeam" -> PyStr(<<"C", "h", "e", "l", "s", "e", "a">>)
               [] key = "homeScore" -> PyDict(<< <<"current", PyStr(<<"x">>)>>, <<"period1", PyNone>> >>)
               [] key = "awayScore" -> PyDict(<< <<"current", PyNone>> >>)
               [] key = "tournament" -> PyInt(17)
               [] key = "season" -> PyDict(<< <<"year", PyStr(<<"2", "0", "2", "5">>)>> >>)
               [] key = "roundInfo" -> PyStr(<<"1", "9">>)
               [] OTHER -> PyStr(<<"s", "o", "o", "n">>))

\* the event with the fields in DOMAIN f dropped or replaced
RECURSIVE WithDefects(_, _)
WithDefects(kv, f) ==
    IF kv = <<>> THEN <<>>
    ELSE LET key == Head(kv)[1]
         IN  (IF key \notin DOMAIN f THEN <<Head(kv)>>
              ELSE IF f[key] = "missing" THEN <<>>
              ELSE << <<key, Defect(key, f[key])>> >>)
             \o WithDefects(Tail(kv), f)

DefectChoices ==
    UNION {[K -> DefectKinds] : K \in {K \in SUBSET EventKeys : Cardinality(K) <= MaxDefects}}

\* what an element of data['events'] can be
ApiEvents ==
    {PyDict(WithDefects(EvArsenal.kv, f)) : f \in DefectChoices}
    \cup {EvRoma, EvNotStarted, EvBare, EvNoStatus, EvNullTeam, EvBadScore}
    \cup {PyNone, PyInt(0), PyStr(<<"e", "v", "e", "n", "t", "s">>), PyList(<<EvArsenal>>)}

ParseInit ==
    /\ RunIdle
    /\ fn = "_parse_api_event"
    /\ arg \in ApiEvents
    /\ out = Unset

ParseApiEvent ==
    /\ fn = "_parse_api_event"
    /\ out = Unset
    /\ out' = LET ds == Strftime(FirstDay)
              IN  _parse_api_event(arg, ds, _get_weekday_chinese(ds))
    /\ UNCHANGED <<runVars, fn, arg>>

ParseNext == ParseApiEvent

ParseSpec == ParseInit /\ [][ParseNext]_vars

MaxElements == 1

PageElements == {ElBayern, ElRoma, ElBlank}

\* what find_elements can do for one selector: raise, or return a list
SelectorResults ==
    {Raised} \cup {PyList(es) : es \in StringsUpTo(PageElements, MaxElements)}

\* what the script of line 191 can do
ScriptResults == {Raised, PyNone, NotJson, JsonText(NextData)}

\* the pages _extract_matches_from_page can be called on
AllPages ==
    {PageOf(s1, s2, s3, script) :
        s1 \in SelectorResults, s2 \in SelectorResults, s3 \in SelectorResults,
        script \in ScriptResults}

PageInit ==
    /\ RunIdle
    /\ fn = "_extract_matches_from_page"
    /\ arg \in AllPages
    /\ out = Unset

\* lines 122-166: the driver calls made, in order, and the list returned
ExtractPage ==
    /\ fn = "_extract_matches_from_page"
    /\ out = Unset
    /\ out' = [t |-> "call",
               calls |-> PageCalls(arg),
               ret |-> _extract_matches_from_page(arg, Strftime(FirstDay))]
    /\ UNCHANGED <<runVars, fn, arg>>

PageNext == ExtractPage

PageSpec == PageInit /\ [][PageNext]_vars

-----------------------------------------------------------------------------
(* Properties *)

IsStrategyCall(c) == c \in {"api", "page"}
StrategyCalls == SelectSeq(trace, IsStrategyCall)

RECURSIVE ConcatResults(_)
ConcatResults(entries) ==
    IF entries = <<>> THEN <<>>
    ELSE Head(entries).result \o ConcatResults(Tail(entries))

NotFailed(entry) == ~entry.failed

ValidArgs == StrptimeOf[startArg] # Raised /\ StrptimeOf[endArg] # Raised
StartOrd == StrptimeOf[startArg].n
EndOrd == StrptimeOf[endArg].n
RangeLen == IF EndOrd < StartOrd THEN 0 ELSE EndOrd - StartOrd + 1
RangeOver == pc \in {"save", "finally", "done", "crashed"}

\* C1: within one scrape_date call the API strategy is the first strategy
\* invoked; the page-based chain is invoked if and only if the API strategy
\* returned an empty list; and the call returns the API strategy's records
\* when there are some, else the page-based chain's.
C1_StrategyOrder ==
    /\ StrategyCalls \in {<<>>, <<"api">>, <<"api", "page">>}
    /\ (StrategyCalls = <<"api", "page">>) => (apiRet = PyList(<<>>))
    /\ (pc = "extend" /\ apiRet = PyList(<<>>)) => (StrategyCalls = <<"api", "page">>)
    /\ (pc = "extend" /\ ~failed) =>
           (dateRet = IF apiRet.items # <<>> THEN apiRet.items ELSE pageRet.items)

\* the API strategy found nothing and the page-based chain's records are returned
C1_Fallback ==
    /\ pc = "extend"
    /\ apiRet = PyList(<<>>)
    /\ pageRet # Unset
    /\ pageRet.items # <<>>
    /\ dateRet = pageRet.items

\* C2: a date whose scrape failed contributes no record, and does not stop
\* the range: once scrape_date_range is over (the dates being valid), it has
\* returned, every date of the range has been processed, and the result is
\* the records of the dates that did not fail, in order.
C2_FailedDateIsolated ==
    /\ \A i \in 1..Len(log) : log[i].failed => log[i].result = <<>>
    /\ (RangeOver /\ acquired = 1 /\ ValidArgs) =>
           /\ rangeRet # Unset
           /\ \A n \in StartOrd..EndOrd : \E i \in 1..Len(log) : log[i].date = StrftimeOf[n]
           /\ rangeRet.items = ConcatResults(SelectSeq(log, NotFailed))

\* a 3-day range whose second day failed returns the records of days 1 and 3
C2_DayTwoFails ==
    /\ rangeRet # Unset
    /\ Len(log) = 3
    /\ log[2].failed
    /\ log[1].result # <<>>
    /\ log[3].result # <<>>
    /\ rangeRet.items = log[1].result \o log[3].result

\* the event is a dict whose status is a dict whose type is 'finished'
StatusIsFinished(event) ==
    /\ event.t = "dict"
    /\ HasKey(event, "status")
    /\ Lookup(event, "status").t = "dict"
    /\ HasKey(Lookup(event, "status"), "type")
    /\ Lookup(Lookup(event, "status"), "type") = PyStr(<<"f", "i", "n", "i", "s", "h", "e", "d">>)

\* C3: _parse_api_event returns a record only for an event whose
\* status.type is "finished"; any other or missing status yields None.
C3_OnlyFinished ==
    (fn = "_parse_api_event" /\ out # Unset /\ out # PyNone) => StatusIsFinished(arg)

\* a record was produced, from a finished event
C3_RecordFromFinished ==
    /\ fn = "_parse_api_event"
    /\ out # Unset
    /\ out # PyNone
    /\ StatusIsFinished(arg)

\* C4: the driver is acquired at most once, at startup; it is closed at most
\* once, and exactly once by the time main ends on any path after it was
\* acquired; no driver call is made after it is closed.
C4_DriverScoped ==
    /\ acquired <= 1
    /\ closed <= acquired
    /\ (acquired = 1) <=> (pc \notin {"start", "crashed"} \/ (pc = "crashed" /\ driver # "none"))
    /\ (pc \in {"done", "crashed"} /\ acquired = 1) => (closed = 1 /\ driver = "closed")
    /\ (closed = 1) => pc \in {"done", "crashed"}
    /\ ~usedAfterClose

\* save_to_csv raised after the range was scraped, and the driver was closed
C4_ClosedAfterSaveRaised ==
    /\ pc = "crashed"
    /\ exc
    /\ rangeRet # Unset
    /\ closed = 1
    /\ driver = "closed"

\* the record's result agrees with its own goals
GoalsConsistent(r) ==
    /\ r.home_goals.t = "int"
    /\ r.away_goals.t = "int"
    /\ (r.result = WIN) <=> (r.home_goals.n > r.away_goals.n)
    /\ (r.result = LOSS) <=> (r.home_goals.n < r.away_goals.n)
    /\ (r.result = DRAW) <=> (r.home_goals.n = r.away_goals.n)

\* C5: every record of the run's accumulated result has a result consistent
\* with its own home_goals and away_goals.
C5_ResultConsistent ==
    /\ \A i \in 1..Len(all_matches) : GoalsConsistent(all_matches[i])
    /\ \A i \in 1..Len(matches) : GoalsConsistent(matches[i])

\* C6: for integers h and a, _determine_result(h, a) is WIN iff h > a, LOSS
\* iff h < a, DRAW iff h = a.
C6_ClassifyIntegers ==
    (fn = "_determine_result" /\ out # Unset /\ arg[1].t = "int" /\ arg[2].t = "int") =>
        /\ (out = WIN) <=> (arg[1].n > arg[2].n)
        /\ (out = LOSS) <=> (arg[1].n < arg[2].n)
        /\ (out = DRAW) <=> (arg[1].n = arg[2].n)

\* 0 goals against 2: a loss (0 is a falsy value)
C6_ZeroLoses ==
    /\ fn = "_determine_result"
    /\ arg = <<PyInt(0), PyInt(2)>>
    /\ out = LOSS

\* event[key][field] exists
HasField(event, key, field) ==
    /\ HasKey(event, key)
    /\ Lookup(event, key).t = "dict"
    /\ HasKey(Lookup(event, key), field)

\* the fields of the record whose source is missing hold the defaults
MissingDefaulted(event, r) ==
    /\ ~HasKey(event, "id") => r.match_id = EmptyStr
    /\ ~HasKey(event, "slug") => r.match_url = EmptyStr
    /\ ~HasKey(event, "startTimestamp") => r.time = EmptyStr
    /\ ~HasField(event, "homeTeam", "name") => r.home_team = EmptyStr
    /\ ~HasField(event, "awayTeam", "name") => r.away_team = EmptyStr
    /\ ~HasField(event, "homeTeam", "id") => r.home_team_id = EmptyStr
    /\ ~HasField(event, "awayTeam", "id") => r.away_team_id = EmptyStr
    /\ ~HasField(event, "homeScore", "current") => r.home_goals = PyInt(0)
    /\ ~HasField(event, "awayScore", "current") => r.away_goals = PyInt(0)
    /\ ~HasField(event, "homeScore", "period1") => r.home_ht = PyInt(0)
    /\ ~HasField(event, "awayScore", "period1") => r.away_ht = PyInt(0)
    /\ ~HasField(event, "tournament", "name") => r.competition = EmptyStr
    /\ (~HasField(event, "season", "name") /\ ~HasField(event, "season", "year")) =>
           r.season = EmptyStr
    /\ ~HasField(event, "roundInfo", "round") => r.round = EmptyStr

NestedKeys == {"homeTeam", "awayTeam", "homeScore", "awayScore", "tournament",
               "season", "roundInfo"}

\* every optional field that is present has the type the API gives it: the
\* nested objects are objects, startTimestamp and the scores are numbers
WellTyped(event) ==
    /\ \A k \in NestedKeys : HasKey(event, k) => Lookup(event, k).t = "dict"
    /\ HasKey(event, "startTimestamp") => Lookup(event, "startTimestamp").t = "int"
    /\ \A k \in {"homeScore", "awayScore"} :
           HasField(event, k, "current") => Lookup(Lookup(event, k), "current").t = "int"

Outcomes == {WIN, LOSS, DRAW, EmptyStr}

\* C8 as stated: _determine_result never raises, and returns the empty
\* marker whenever int() cannot parse one of its arguments (None and ''
\* included).
C8_UnparseableGivesEmpty ==
    (fn = "_determine_result" /\ out # Unset) =>
        /\ out \in Outcomes
        /\ (PyIntOf(arg[1]) = Raised \/ PyIntOf(arg[2]) = Raised) => out = EmptyStr

\* int() cannot parse the value, and the value is not falsy
TruthyUnparseable(v) == Truthy(v) /\ PyIntOf(v) = Raised

\* the number a score stands for: 0 for a falsy one
GoalNumber(v) == IF Truthy(v) THEN PyIntOf(v).n ELSE 0

\* C8, amended: _determine_result never raises; it returns the empty marker
\* exactly when one of its arguments is not falsy and cannot be parsed as an
\* integer; a falsy argument (None, '', 0, an empty container) counts as 0.
C8_TruthyUnparseableGivesEmpty ==
    (fn = "_determine_result" /\ out # Unset) =>
        /\ out \in Outcomes
        /\ (out = EmptyStr) <=> (TruthyUnparseable(arg[1]) \/ TruthyUnparseable(arg[2]))
        /\ (out # EmptyStr) =>
               /\ (out = WIN) <=> (GoalNumber(arg[1]) > GoalNumber(arg[2]))
               /\ (out = LOSS) <=> (GoalNumber(arg[1]) < GoalNumber(arg[2]))

\* 'x' against None: the empty marker
C8_EmptyMarker ==
    /\ fn = "_determine_result"
    /\ arg = <<PyStr(<<"x">>), PyNone>>
    /\ out = EmptyStr

\* ignoring case, L is a substring of c or c is a substring of L, for some L
SymmetricSubstring(c) ==
    \E i \in 1..Len(TOP5_LEAGUES) :
        \/ IsSubstring(StrLower(TOP5_LEAGUES[i]), StrLower(c))
        \/ IsSubstring(StrLower(c), StrLower(TOP5_LEAGUES[i]))

LeagueExamples ==
    /\ arg \in {PyStr(<<"p", "r", "e", "m", "i", "e", "r", " ", "l", "e", "a", "g", "u", "e">>),
                PyStr(<<"P", "R", "E", "M", "I", "E", "R", " ", "L", "E", "A", "G", "U", "E", " ", "2", "0", "2", "4", "/", "2", "5">>),
                PyStr(<<"L", "a", " ", "L", "i", "g", "a">>)} => out = PyBool(TRUE)
    /\ arg \in {PyStr(<<"C", "h", "a", "m", "p", "i", "o", "n", "s", "h", "i", "p">>), EmptyStr, PyNone} => out = PyBool(FALSE)

\* C9 as stated: _is_top5_league(c) is true iff c is non-empty and, ignoring
\* case, some allow-list entry is a substring of c or c a substring of it.
C9_SymmetricSubstring ==
    (fn = "_is_top5_league" /\ out # Unset) =>
        /\ out.b <=> (arg # PyNone /\ arg # EmptyStr /\ SymmetricSubstring(arg.s))
        /\ LeagueExamples

\* C9, amended: _is_top5_league(c) is true iff c is non-empty and, ignoring
\* case and the whitespace around c, some allow-list entry is a substring of
\* c or c a substring of it.
C9_SymmetricSubstringStripped ==
    (fn = "_is_top5_league" /\ out # Unset) =>
        /\ out.b <=> (arg # PyNone /\ arg # EmptyStr /\ SymmetricSubstring(StrStrip(arg.s)))
        /\ LeagueExamples

\* 'Liga ' with its trailing blank is a top-5 league
C9_PaddedName ==
    /\ fn = "_is_top5_league"
    /\ arg = PyStr(<<"L", "i", "g", "a", " ">>)
    /\ out = PyBool(TRUE)

\* the dates of the range are processed once each, in ascending order, and
\* the value returned and self.matches are the per-date results concatenated
C10_InOrder ==
    (ValidArgs /\ acquired = 1) =>
        /\ Len(log) <= RangeLen
        /\ \A i \in 1..Len(log) : log[i].date = StrftimeOf[StartOrd + i - 1]
        /\ (rangeRet # Unset) =>
               /\ Len(log) = RangeLen
               /\ rangeRet.items = ConcatResults(log)
               /\ matches = rangeRet.items

\* C10: scrape_date_range(start, end) terminates, having processed every
\* date from start to end exactly once in ascending order (none when
\* start > end); what it returns and self.matches are the per-date results
\* concatenated in that order.
C10_RangeTerminatesInOrder ==
    /\ [] C10_InOrder
    /\ (pc = "range" /\ ValidArgs) ~> (rangeRet # Unset)

\* a range of three dates was scraped and returned records
C10_ThreeDays ==
    /\ rangeRet # Unset
    /\ Len(log) = 3
    /\ rangeRet.items # <<>>
    /\ matches = rangeRet.items

IsSelector(c) == \E i \in 1..Len(EventSelectors) : c = EventSelectors[i]

\* find_elements, for selector i of the page, returned at least one element
Yields(page, i) ==
    /\ page.sel[i] # Raised
    /\ page.sel[i].items # <<>>

\* C11: the DOM strategy tries the selectors in their fixed priority order
\* and stops at the first one that yields an element (a selector that raises
\* or yields nothing is passed over); the elements of that selector are the
\* ones parsed; the embedded-data strategy is invoked if and only if no
\* selector yields an element, and its list is then the one returned.
C11_SelectorPriority ==
    (fn = "_extract_matches_from_page" /\ out # Unset) =>
        LET tried == SelectSeq(out.calls, IsSelector)
            n == Len(tried)
            ds == Strftime(FirstDay)
            weekday == _get_weekday_chinese(ds)
            someYields == \E i \in 1..Len(EventSelectors) : Yields(arg, i)
        IN  /\ n \in 1..Len(EventSelectors)
            /\ out.calls \in {tried, Append(tried, "script_data")}
            /\ tried = SubSeq(EventSelectors, 1, n)
            /\ \A i \in 1..(n - 1) : ~Yields(arg, i)
            /\ someYields =>
                   /\ Yields(arg, n)
                   /\ out.calls = tried
                   /\ out.ret = PyList(ParseElements(arg.sel[n].items, ds, weekday))
            /\ ~someYields =>
                   /\ out.calls = Append(EventSelectors, "script_data")
                   /\ out.ret = PyList(_extract_from_script_data(arg.script, ds, weekday))

\* the first selector raises, the second yields an element that parses to a
\* record, the third would yield another one and is not tried
C11_SecondSelector ==
    /\ fn = "_extract_matches_from_page"
    /\ out # Unset
    /\ arg.sel[1] = Raised
    /\ arg.sel[2] = PyList(<<ElRoma>>)
    /\ arg.sel[3] = PyList(<<ElBayern>>)
    /\ out.calls = SubSeq(EventSelectors, 1, 2)
    /\ Len(out.ret.items) = 1
    /\ out.ret.items[1].home_team = PyStr(<<"R", "o", "m", "a">>)

\* how many times the call c was made for the current date
TimesCalled(c) == Cardinality({i \in 1..Len(trace) : trace[i] = c})

=============================================================================
